---- MODULE Spec2Model ----
(***************************************************************************)
(* hello-fuse (src/main.go): the mount-and-shutdown lifecycle of main,     *)
(* its goroutines (mount call, signal wait, serve-loop wait, tryStatFile)  *)
(* and the identity resolution that precedes them.                         *)
(*                                                                         *)
(* The process is a set of tasks that interleave one statement at a time.  *)
(* os.Exit and the return of main end the process: exitStatus leaves       *)
(* NoExit and no task takes a further step.                                *)
(***************************************************************************)
EXTENDS Integers, Sequences, FiniteSets, TLC

VARIABLES
    argc,          \* len(flag.Args())
    uidFlag,       \* *uid
    gidFlag,       \* *gid
    currentUser,   \* what user.Current() returns in this run
    mountpoint,    \* flag.Arg(0)
    mainPc,        \* position of main
    exitStatus,    \* NoExit while the process runs, then its exit status
    exitPath,      \* the statement that ended the process
    out,           \* the messages written to stdout / stderr
    ruid,          \* resolved uid (uint32)
    rgid,          \* resolved gid (uint32)
    lookups,       \* number of calls of user.Current()
    notified,      \* signal.Notify(sigCh, SIGINT, SIGTERM) has run
    sigCh,         \* number of signals buffered in sigCh (capacity 1)
    sigSent,       \* number of SIGINT/SIGTERM delivered to the process
    sigEarly,      \* a signal was delivered before the signal goroutine existed
    mountPc,       \* position of the goroutine that calls fs.Mount
    mountCalls,    \* number of calls of fs.Mount
    server,        \* the variable server
    mountErr,      \* the variable mountErr
    done,          \* the channel done is closed
    writers,       \* tasks that have written server / mountErr
    earlyRead,     \* server / mountErr was read while done was not closed
    mounted,       \* the kernel mount on mountpoint exists
    serving,       \* the serve loop of the mount service runs
    extUnmounted,  \* the mount was removed by someone else than this process
    sigPc,         \* position of the signal goroutine
    umountCount,   \* number of runs of the umount command
    umountArg,     \* arguments of the umount runs
    umountErr,     \* err of cmd.Run()
    waitPc,        \* position of the goroutine that calls server.Wait()
    wg,            \* the WaitGroup counter
    probePc,       \* position of tryStatFile
    probeI,        \* stat attempts made by tryStatFile
    probeErr,      \* err != nil in tryStatFile
    statOk         \* some os.Stat of file.txt has succeeded

inputVars == <<argc, uidFlag, gidFlag, currentUser, mountpoint>>
exitVars  == <<exitStatus, exitPath>>
idVars    == <<ruid, rgid, lookups>>
chanVars  == <<notified, sigCh, sigSent, sigEarly>>
mountVars == <<mountPc, mountCalls, server, mountErr, done, writers>>
fsVars    == <<mounted, serving, extUnmounted>>
sigVars   == <<sigPc, umountCount, umountArg, umountErr>>
waitVars  == <<waitPc, wg>>
probeVars == <<probePc, probeI, probeErr, statOk>>

vars == <<inputVars, mainPc, exitVars, out, idVars, chanVars, mountVars,
          earlyRead, fsVars, sigVars, waitVars, probeVars>>

(***************************************************************************)
(* Bounds and program constants                                            *)
(***************************************************************************)
MaxSignals == 2

ProbeAttempts == 3

SigChCap == 1

NoExit == -1

Sentinel == -1

Half == 65536

\* requested -uid / -gid values
ReqIds == {-2, Sentinel, 3}

Mountpoints == {"mntA", "mntB"}

Digits == {"0", "1", "2", "3", "4", "5", "6", "7", "8", "9"}

\* outcomes of user.Current(): failure, or a user with Uid and Gid strings
Users ==
    { [ok |-> FALSE, Uid |-> <<>>, Gid |-> <<>>],
      [ok |-> TRUE, Uid |-> <<"7">>, Gid |-> <<"1", "2">>],
      [ok |-> TRUE, Uid |-> <<"x">>, Gid |-> <<"1", "2">>],
      [ok |-> TRUE, Uid |-> <<"7">>, Gid |-> <<>>] }

(***************************************************************************)
(* Identity resolution                                                     *)
(***************************************************************************)
DigitVal(c) ==
    CASE c = "0" -> 0 [] c = "1" -> 1 [] c = "2" -> 2 [] c = "3" -> 3
      [] c = "4" -> 4 [] c = "5" -> 5 [] c = "6" -> 6 [] c = "7" -> 7
      [] c = "8" -> 8 [] c = "9" -> 9

RECURSIVE DecVal(_)
DecVal(s) ==
    IF s = <<>> THEN 0
    ELSE 10 * DecVal(SubSeq(s, 1, Len(s) - 1)) + DigitVal(s[Len(s)])

\* strconv.Atoi: optional sign, then one or more decimal digits
Atoi(s) ==
    LET signed == s # <<>> /\ s[1] \in {"-", "+"}
        body   == IF signed THEN Tail(s) ELSE s
    IN  IF body = <<>> \/ \E i \in 1..Len(body) : body[i] \notin Digits
        THEN [err |-> TRUE, val |-> 0]
        ELSE [err |-> FALSE,
              val |-> IF signed /\ s[1] = "-" THEN 0 - DecVal(body) ELSE DecVal(body)]

\* the conversion uint32(x), the result held as two 16-bit halves
uint32(x) == [hi |-> (x \div Half) % Half, lo |-> x % Half]

Zero32 == uint32(0)

\* ruid, rgid before main has declared them
NotResolved == [hi |-> 0 - 1, lo |-> 0 - 1]

getCurrentUIDGID(u) ==
    IF ~u.ok THEN [err |-> TRUE, uid |-> Zero32, gid |-> Zero32]
    ELSE IF Atoi(u.Uid).err THEN [err |-> TRUE, uid |-> Zero32, gid |-> Zero32]
    ELSE IF Atoi(u.Gid).err THEN [err |-> TRUE, uid |-> Zero32, gid |-> Zero32]
    ELSE [err |-> FALSE, uid |-> uint32(Atoi(u.Uid).val), gid |-> uint32(Atoi(u.Gid).val)]

\* mutant: the current identity is looked up only when uid or gid is -1
resolveUIDGID_Lazy(uid, gid, u) ==
    LET cur == getCurrentUIDGID(u)
    IN  IF uid # Sentinel /\ gid # Sentinel
        THEN [err |-> FALSE, lookups |-> 0, uid |-> uint32(uid), gid |-> uint32(gid)]
        ELSE IF cur.err THEN [err |-> TRUE, uid |-> Zero32, gid |-> Zero32, lookups |-> 1]
        ELSE [err |-> FALSE, lookups |-> 1,
              uid |-> IF uid = Sentinel THEN cur.uid ELSE uint32(uid),
              gid |-> IF gid = Sentinel THEN cur.gid ELSE uint32(gid)]

\* lookups: the calls of getCurrentUIDGID (of user.Current) it makes
resolveUIDGID(uid, gid, u) ==
    LET cur == getCurrentUIDGID(u)
    IN  IF cur.err THEN [err |-> TRUE, uid |-> Zero32, gid |-> Zero32, lookups |-> 1]
        ELSE [err |-> FALSE, lookups |-> 1,
              uid |-> IF uid = Sentinel THEN cur.uid ELSE uint32(uid),
              gid |-> IF gid = Sentinel THEN cur.gid ELSE uint32(gid)]

(***************************************************************************)
(* The process                                                             *)
(***************************************************************************)
Running == exitStatus = NoExit

\* os.Exit(code), or main returning (code 0)
ProcessExit(code, path) ==
    /\ exitStatus' = code
    /\ exitPath' = path

Init ==
    /\ argc \in {0, 1}
    /\ uidFlag \in ReqIds
    /\ gidFlag \in ReqIds
    /\ currentUser \in Users
    /\ mountpoint \in Mountpoints
    /\ mainPc = "parse"
    /\ exitStatus = NoExit
    /\ exitPath = "none"
    /\ out = {}
    /\ ruid = NotResolved
    /\ rgid = NotResolved
    /\ lookups = 0
    /\ notified = FALSE
    /\ sigCh = 0
    /\ sigSent = 0
    /\ sigEarly = FALSE
    /\ mountPc = "none"
    /\ mountCalls = 0
    /\ server = "nil"
    /\ mountErr = "nil"
    /\ done = FALSE
    /\ writers = {}
    /\ earlyRead = FALSE
    /\ mounted = FALSE
    /\ serving = FALSE
    /\ extUnmounted = FALSE
    /\ sigPc = "none"
    /\ umountCount = 0
    /\ umountArg = {}
    /\ umountErr = "nil"
    /\ waitPc = "none"
    /\ wg = 0
    /\ probePc = "none"
    /\ probeI = 0
    /\ probeErr = FALSE
    /\ statOk = FALSE


(***************************************************************************)
(* main                                                                    *)
(***************************************************************************)
\* mutant: the usage is printed but main does not return
main_Parse_NoReturn ==
    /\ Running
    /\ mainPc = "parse"
    /\ out' = IF argc < 1 THEN out \cup {"usage"} ELSE out
    /\ mainPc' = "resolve"
    /\ UNCHANGED <<inputVars, exitVars, idVars, chanVars, mountVars, earlyRead, fsVars,
                   sigVars, waitVars, probeVars>>

\* flag.Parse(); if len(flag.Args()) < 1 { print usage; return }
main_Parse ==
    /\ Running
    /\ mainPc = "parse"
    /\ IF argc < 1
       THEN /\ out' = out \cup {"usage"}
            /\ mainPc' = "returned"
            /\ ProcessExit(0, "usage")
       ELSE /\ mainPc' = "resolve"
            /\ UNCHANGED <<out, exitVars>>
    /\ UNCHANGED <<inputVars, idVars, chanVars, mountVars, earlyRead, fsVars,
                   sigVars, waitVars, probeVars>>

\* mutant: the error of resolveUIDGID is printed but main goes on
main_Resolve_IgnoreErr ==
    /\ Running
    /\ mainPc = "resolve"
    /\ LET r == resolveUIDGID(uidFlag, gidFlag, currentUser)
       IN  /\ ruid' = r.uid
           /\ rgid' = r.gid
           /\ lookups' = lookups + r.lookups
           /\ out' = out \cup {IF r.err THEN "resolveError" ELSE "using"}
           /\ mainPc' = "notify"
    /\ UNCHANGED <<inputVars, exitVars, chanVars, mountVars, earlyRead, fsVars,
                   sigVars, waitVars, probeVars>>

\* ruid, rgid, err := resolveUIDGID(*uid, *gid); on err print and os.Exit(1)
main_Resolve ==
    /\ Running
    /\ mainPc = "resolve"
    /\ LET r == resolveUIDGID(uidFlag, gidFlag, currentUser)
       IN  /\ ruid' = r.uid
           /\ rgid' = r.gid
           /\ lookups' = lookups + r.lookups
           /\ IF r.err
              THEN /\ out' = out \cup {"resolveError"}
                   /\ mainPc' = "exited"
                   /\ ProcessExit(1, "identity")
              ELSE /\ out' = out \cup {"using"}
                   /\ mainPc' = "notify"
                   /\ UNCHANGED exitVars
    /\ UNCHANGED <<inputVars, chanVars, mountVars, earlyRead, fsVars,
                   sigVars, waitVars, probeVars>>

\* done := make(chan struct{}); sigCh := make(chan os.Signal, 1); signal.Notify(...)
main_Notify ==
    /\ Running
    /\ mainPc = "notify"
    /\ notified' = TRUE
    /\ mainPc' = "goMount"
    /\ UNCHANGED <<inputVars, exitVars, out, idVars, sigCh, sigSent, sigEarly, mountVars,
                   earlyRead, fsVars, sigVars, waitVars, probeVars>>

\* go func() { server, mountErr = fs.Mount(...); close(done) }()
main_GoMount ==
    /\ Running
    /\ mainPc = "goMount"
    /\ mountPc' = "calling"
    /\ mountCalls' = mountCalls + 1
    /\ mainPc' = "select"
    /\ UNCHANGED <<inputVars, exitVars, out, idVars, chanVars, server, mountErr,
                   done, writers, earlyRead, fsVars, sigVars, waitVars, probeVars>>

\* mutant: the done case does not look at mountErr
main_SelectDone_IgnoreErr ==
    /\ Running
    /\ mainPc = "select"
    /\ done
    /\ earlyRead' = (earlyRead \/ ~done)
    /\ mainPc' = "wgAdd"
    /\ UNCHANGED <<inputVars, exitVars, out, idVars, chanVars, mountVars, fsVars,
                   sigVars, waitVars, probeVars>>

\* mutant: main reads mountErr without receiving from done
main_SelectDone_NoWait ==
    /\ Running
    /\ mainPc = "select"
    /\ mountPc # "none"
    /\ earlyRead' = (earlyRead \/ ~done)
    /\ mainPc' = IF mountErr # "nil" THEN "mountFail" ELSE "wgAdd"
    /\ UNCHANGED <<inputVars, exitVars, out, idVars, chanVars, mountVars, fsVars,
                   sigVars, waitVars, probeVars>>

\* select: case <-done, which reads mountErr
main_SelectDone ==
    /\ Running
    /\ mainPc = "select"
    /\ done
    /\ earlyRead' = (earlyRead \/ ~done)
    /\ mainPc' = IF mountErr # "nil" THEN "mountFail" ELSE "wgAdd"
    /\ UNCHANGED <<inputVars, exitVars, out, idVars, chanVars, mountVars, fsVars,
                   sigVars, waitVars, probeVars>>

\* mutant: the timer is looked at only once the mount call has completed
main_SelectTimeout_AfterDone ==
    /\ Running
    /\ mainPc = "select"
    /\ done
    /\ mainPc' = "timeout"
    /\ UNCHANGED <<inputVars, exitVars, out, idVars, chanVars, mountVars, earlyRead,
                   fsVars, sigVars, waitVars, probeVars>>

\* select: case <-time.After(*mountTimeout); the timer fires where main
\* receives from its channel (with done closed too, select picks either case)
main_SelectTimeout ==
    /\ Running
    /\ mainPc = "select"
    /\ mainPc' = "timeout"
    /\ UNCHANGED <<inputVars, exitVars, out, idVars, chanVars, mountVars, earlyRead,
                   fsVars, sigVars, waitVars, probeVars>>

\* Fprintf(os.Stderr, "Mount fail: ..."); os.Exit(1)
main_MountFail ==
    /\ Running
    /\ mainPc = "mountFail"
    /\ out' = out \cup {"mountFail"}
    /\ mainPc' = "exited"
    /\ ProcessExit(1, "mountError")
    /\ UNCHANGED <<inputVars, idVars, chanVars, mountVars, earlyRead, fsVars,
                   sigVars, waitVars, probeVars>>

\* mutant: the timeout case prints the hint and goes on without os.Exit(1)
main_Timeout_NoExit ==
    /\ Running
    /\ mainPc = "timeout"
    /\ out' = out \cup {"timeoutHint"}
    /\ mainPc' = "wgAdd"
    /\ UNCHANGED <<inputVars, exitVars, idVars, chanVars, mountVars, earlyRead, fsVars,
                   sigVars, waitVars, probeVars>>

\* Fprintf(os.Stderr, "ERROR: Mount failed timed out ... Hint: ..."); os.Exit(1)
main_Timeout ==
    /\ Running
    /\ mainPc = "timeout"
    /\ out' = out \cup {"timeoutHint"}
    /\ mainPc' = "exited"
    /\ ProcessExit(1, "timeout")
    /\ UNCHANGED <<inputVars, idVars, chanVars, mountVars, earlyRead, fsVars,
                   sigVars, waitVars, probeVars>>

\* wg.Add(1); go func() { sig := <-sigCh; ... }()
main_GoSignal ==
    /\ Running
    /\ mainPc = "wgAdd"
    /\ wg' = wg + 1
    /\ sigPc' = "recv"
    /\ mainPc' = "goWait"
    /\ UNCHANGED <<inputVars, exitVars, out, idVars, chanVars, mountVars, earlyRead,
                   fsVars, umountCount, umountArg, umountErr, waitPc, probeVars>>

\* go func() { server.Wait(); wg.Done() }()
main_GoWait ==
    /\ Running
    /\ mainPc = "goWait"
    /\ waitPc' = "call"
    /\ mainPc' = "goProbe"
    /\ UNCHANGED <<inputVars, exitVars, out, idVars, chanVars, mountVars, earlyRead,
                   fsVars, sigVars, wg, probeVars>>

\* go tryStatFile(mountpoint)
main_GoProbe ==
    /\ Running
    /\ mainPc = "goProbe"
    /\ probePc' = "stat"
    /\ mainPc' = "ready"
    /\ UNCHANGED <<inputVars, exitVars, out, idVars, chanVars, mountVars, earlyRead,
                   fsVars, sigVars, waitVars, probeI, probeErr, statOk>>

\* fmt.Println("Mount ready")
main_Ready ==
    /\ Running
    /\ mainPc = "ready"
    /\ out' = out \cup {"ready"}
    /\ mainPc' = "wgWait"
    /\ UNCHANGED <<inputVars, exitVars, idVars, chanVars, mountVars, earlyRead,
                   fsVars, sigVars, waitVars, probeVars>>

\* wg.Wait()
main_WgWait ==
    /\ Running
    /\ mainPc = "wgWait"
    /\ wg = 0
    /\ mainPc' = "return"
    /\ UNCHANGED <<inputVars, exitVars, out, idVars, chanVars, mountVars, earlyRead,
                   fsVars, sigVars, waitVars, probeVars>>

\* mutant: main ends the process with os.Exit(1) after wg.Wait()
main_Return_Exit1 ==
    /\ Running
    /\ mainPc = "return"
    /\ mainPc' = "returned"
    /\ ProcessExit(1, "serveReturn")
    /\ UNCHANGED <<inputVars, out, idVars, chanVars, mountVars, earlyRead,
                   fsVars, sigVars, waitVars, probeVars>>

\* main returns: the process ends with status 0
main_Return ==
    /\ Running
    /\ mainPc = "return"
    /\ mainPc' = "returned"
    /\ ProcessExit(0, "serveReturn")
    /\ UNCHANGED <<inputVars, out, idVars, chanVars, mountVars, earlyRead,
                   fsVars, sigVars, waitVars, probeVars>>

(***************************************************************************)
(* The goroutine that calls fs.Mount                                       *)
(***************************************************************************)
\* server, mountErr = fs.Mount(mountpoint, &HelloRoot{}, opts) returns; on
\* success the mount exists and its serve loop runs.  The call may also
\* never return.
mountTask_Return ==
    /\ Running
    /\ mountPc = "calling"
    /\ \E ok \in BOOLEAN :
         /\ server' = IF ok THEN "srv" ELSE "nil"
         /\ mountErr' = IF ok THEN "nil" ELSE "err"
         /\ mounted' = ok
         /\ serving' = ok
    /\ writers' = writers \cup {"mountTask"}
    /\ mountPc' = "returned"
    /\ UNCHANGED <<inputVars, mainPc, exitVars, out, idVars, chanVars, mountCalls,
                   done, earlyRead, extUnmounted, sigVars, waitVars, probeVars>>

\* close(done)
mountTask_Close ==
    /\ Running
    /\ mountPc = "returned"
    /\ done' = TRUE
    /\ mountPc' = "finished"
    /\ UNCHANGED <<inputVars, mainPc, exitVars, out, idVars, chanVars, mountCalls,
                   server, mountErr, writers, earlyRead, fsVars, sigVars, waitVars,
                   probeVars>>

(***************************************************************************)
(* The signal goroutine                                                    *)
(***************************************************************************)
\* sig := <-sigCh; fmt.Printf("Received signal ...")
sigTask_Recv ==
    /\ Running
    /\ sigPc = "recv"
    /\ sigCh > 0
    /\ sigCh' = sigCh - 1
    /\ out' = out \cup {"received"}
    /\ sigPc' = "umount"
    /\ UNCHANGED <<inputVars, mainPc, exitVars, idVars, notified, sigSent, sigEarly, mountVars,
                   earlyRead, fsVars, umountCount, umountArg, umountErr, waitVars,
                   probeVars>>

\* cmd := exec.Command("umount", mountpoint); cmd.Run() starts the command
sigTask_UmountStart ==
    /\ Running
    /\ sigPc = "umount"
    /\ umountCount' = umountCount + 1
    /\ umountArg' = umountArg \cup {mountpoint}
    /\ sigPc' = "umountRun"
    /\ UNCHANGED <<inputVars, mainPc, exitVars, out, idVars, chanVars, mountVars,
                   earlyRead, fsVars, umountErr, waitVars, probeVars>>

\* mutant: the test of err is inverted (if err == nil)
sigTask_UmountFinish_Inverted ==
    /\ Running
    /\ sigPc = "umountRun"
    /\ \E ok \in (IF mounted THEN BOOLEAN ELSE {FALSE}) :
         /\ umountErr' = IF ok THEN "nil" ELSE "err"
         /\ mounted' = IF ok THEN FALSE ELSE mounted
         /\ sigPc' = IF ok THEN "failPrint" ELSE "exit0"
    /\ UNCHANGED <<inputVars, mainPc, exitVars, out, idVars, chanVars, mountVars,
                   earlyRead, serving, extUnmounted, umountCount, umountArg,
                   waitVars, probeVars>>

\* err := cmd.Run() returns: umount fails when nothing is mounted, and either
\* removes the mount or fails (for instance: target busy) when it is
sigTask_UmountFinish ==
    /\ Running
    /\ sigPc = "umountRun"
    /\ \E ok \in (IF mounted THEN BOOLEAN ELSE {FALSE}) :
         /\ umountErr' = IF ok THEN "nil" ELSE "err"
         /\ mounted' = IF ok THEN FALSE ELSE mounted
         /\ sigPc' = IF ok THEN "exit0" ELSE "failPrint"
    /\ UNCHANGED <<inputVars, mainPc, exitVars, out, idVars, chanVars, mountVars,
                   earlyRead, serving, extUnmounted, umountCount, umountArg,
                   waitVars, probeVars>>

\* fmt.Fprintf(os.Stderr, "Failed to unmount: ...")
sigTask_FailPrint ==
    /\ Running
    /\ sigPc = "failPrint"
    /\ out' = out \cup {"umountFail"}
    /\ sigPc' = "exit1"
    /\ UNCHANGED <<inputVars, mainPc, exitVars, idVars, chanVars, mountVars,
                   earlyRead, fsVars, umountCount, umountArg, umountErr, waitVars,
                   probeVars>>

\* mutant: the signal task waits for the next signal instead of exiting
sigTask_Exit_Loop ==
    /\ Running
    /\ sigPc \in {"exit0", "exit1"}
    /\ sigPc' = "recv"
    /\ UNCHANGED <<inputVars, mainPc, exitVars, out, idVars, chanVars, mountVars,
                   earlyRead, fsVars, umountCount, umountArg, umountErr, waitVars,
                   probeVars>>

\* mutant: the signal task exits with status 0 whatever umount returned
sigTask_Exit_Always0 ==
    /\ Running
    /\ sigPc \in {"exit0", "exit1"}
    /\ ProcessExit(0, "signal")
    /\ sigPc' = "exited"
    /\ UNCHANGED <<inputVars, mainPc, out, idVars, chanVars, mountVars, earlyRead,
                   fsVars, umountCount, umountArg, umountErr, waitVars, probeVars>>

\* os.Exit(1) after a failed umount, os.Exit(0) otherwise
sigTask_Exit ==
    /\ Running
    /\ sigPc \in {"exit0", "exit1"}
    /\ ProcessExit(IF sigPc = "exit1" THEN 1 ELSE 0, "signal")
    /\ sigPc' = "exited"
    /\ UNCHANGED <<inputVars, mainPc, out, idVars, chanVars, mountVars, earlyRead,
                   fsVars, umountCount, umountArg, umountErr, waitVars, probeVars>>

(***************************************************************************)
(* The goroutine that waits for the serve loop                             *)
(***************************************************************************)
\* server.Wait() is called: reads the variable server
waitTask_Call ==
    /\ Running
    /\ waitPc = "call"
    /\ earlyRead' = (earlyRead \/ ~done)
    /\ waitPc' = "wait"
    /\ UNCHANGED <<inputVars, mainPc, exitVars, out, idVars, chanVars, mountVars,
                   fsVars, sigVars, wg, probeVars>>

\* server.Wait() returns once the serve loop has ended
waitTask_WaitReturn ==
    /\ Running
    /\ waitPc = "wait"
    /\ ~serving
    /\ waitPc' = "wgDone"
    /\ UNCHANGED <<inputVars, mainPc, exitVars, out, idVars, chanVars, mountVars,
                   earlyRead, fsVars, sigVars, wg, probeVars>>

\* wg.Done()
waitTask_WgDone ==
    /\ Running
    /\ waitPc = "wgDone"
    /\ wg' = wg - 1
    /\ waitPc' = "finished"
    /\ UNCHANGED <<inputVars, mainPc, exitVars, out, idVars, chanVars, mountVars,
                   earlyRead, fsVars, sigVars, probeVars>>

(***************************************************************************)
(* tryStatFile                                                             *)
(***************************************************************************)
\* mutant: the loop does not break after a successful stat
tryStatFile_Stat_NoBreak ==
    /\ Running
    /\ probePc = "stat"
    /\ \E ok \in BOOLEAN :
         /\ probeErr' = ~ok
         /\ statOk' = (statOk \/ ok)
    /\ probePc' = "sleep"
    /\ probeI' = probeI + 1
    /\ UNCHANGED <<inputVars, mainPc, exitVars, out, idVars, chanVars, mountVars,
                   earlyRead, fsVars, sigVars, waitVars>>

\* _, err = os.Stat(mountpoint + "/file.txt"); if err == nil { break }
tryStatFile_Stat ==
    /\ Running
    /\ probePc = "stat"
    /\ \E ok \in BOOLEAN :
         /\ probeErr' = ~ok
         /\ statOk' = (statOk \/ ok)
         /\ probePc' = IF ok THEN "check" ELSE "sleep"
    /\ probeI' = probeI + 1
    /\ UNCHANGED <<inputVars, mainPc, exitVars, out, idVars, chanVars, mountVars,
                   earlyRead, fsVars, sigVars, waitVars>>

\* time.Sleep(500 * time.Millisecond), then the next round of `for range 3`
tryStatFile_Sleep ==
    /\ Running
    /\ probePc = "sleep"
    /\ probePc' = IF probeI < ProbeAttempts THEN "stat" ELSE "check"
    /\ UNCHANGED <<inputVars, mainPc, exitVars, out, idVars, chanVars, mountVars,
                   earlyRead, fsVars, sigVars, waitVars, probeI, probeErr, statOk>>

\* if err != nil { Fprintf(os.Stderr, "Mount failed, error stating file") ... }
tryStatFile_Check ==
    /\ Running
    /\ probePc = "check"
    /\ IF probeErr
       THEN /\ out' = out \cup {"statFail"}
            /\ probePc' = "exit"
       ELSE /\ probePc' = "finished"
            /\ UNCHANGED out
    /\ UNCHANGED <<inputVars, mainPc, exitVars, idVars, chanVars, mountVars,
                   earlyRead, fsVars, sigVars, waitVars, probeI, probeErr, statOk>>

\* mutant: the os.Exit(1) of tryStatFile takes effect although the process
\* has already ended
tryStatFile_Exit_Unguarded ==
    /\ probePc = "exit"
    /\ ProcessExit(1, "verify")
    /\ probePc' = "exited"
    /\ UNCHANGED <<inputVars, mainPc, out, idVars, chanVars, mountVars, earlyRead,
                   fsVars, sigVars, waitVars, probeI, probeErr, statOk>>

\* os.Exit(1)
tryStatFile_Exit ==
    /\ Running
    /\ probePc = "exit"
    /\ ProcessExit(1, "verify")
    /\ probePc' = "exited"
    /\ UNCHANGED <<inputVars, mainPc, out, idVars, chanVars, mountVars, earlyRead,
                   fsVars, sigVars, waitVars, probeI, probeErr, statOk>>

(***************************************************************************)
(* The environment                                                         *)
(***************************************************************************)
\* mutant: sigCh is unbuffered, so a signal is dropped unless the signal
\* goroutine is waiting to receive
env_Signal_Unbuffered ==
    /\ Running
    /\ notified
    /\ sigSent < MaxSignals
    /\ sigSent' = sigSent + 1
    /\ sigCh' = IF sigPc = "recv" /\ sigCh < SigChCap THEN sigCh + 1 ELSE sigCh
    /\ sigEarly' = (sigEarly \/ sigPc = "none")
    /\ UNCHANGED <<inputVars, mainPc, exitVars, out, idVars, notified, mountVars,
                   earlyRead, fsVars, sigVars, waitVars, probeVars>>

\* SIGINT or SIGTERM is delivered: the runtime sends it to sigCh without
\* blocking, and drops it when the buffer is full
env_Signal ==
    /\ Running
    /\ notified
    /\ sigSent < MaxSignals
    /\ sigSent' = sigSent + 1
    /\ sigCh' = IF sigCh < SigChCap THEN sigCh + 1 ELSE sigCh
    /\ sigEarly' = (sigEarly \/ sigPc = "none")
    /\ UNCHANGED <<inputVars, mainPc, exitVars, out, idVars, notified, mountVars,
                   earlyRead, fsVars, sigVars, waitVars, probeVars>>

\* the mount is removed from outside the process
env_Unmount ==
    /\ Running
    /\ mounted
    /\ mounted' = FALSE
    /\ extUnmounted' = TRUE
    /\ UNCHANGED <<inputVars, mainPc, exitVars, out, idVars, chanVars, mountVars,
                   earlyRead, serving, sigVars, waitVars, probeVars>>

\* the serve loop of the mount service ends once the mount is gone
env_ServeLoopEnd ==
    /\ Running
    /\ serving
    /\ ~mounted
    /\ serving' = FALSE
    /\ UNCHANGED <<inputVars, mainPc, exitVars, out, idVars, chanVars, mountVars,
                   earlyRead, mounted, extUnmounted, sigVars, waitVars, probeVars>>

Next ==
    \/ main_Parse
    \/ main_Resolve
    \/ main_Notify
    \/ main_GoMount
    \/ main_SelectDone
    \/ main_SelectTimeout
    \/ main_MountFail
    \/ main_Timeout
    \/ main_GoSignal
    \/ main_GoWait
    \/ main_GoProbe
    \/ main_Ready
    \/ main_WgWait
    \/ main_Return
    \/ mountTask_Return
    \/ mountTask_Close
    \/ sigTask_Recv
    \/ sigTask_UmountStart
    \/ sigTask_UmountFinish
    \/ sigTask_FailPrint
    \/ sigTask_Exit
    \/ waitTask_Call
    \/ waitTask_WaitReturn
    \/ waitTask_WgDone
    \/ tryStatFile_Stat
    \/ tryStatFile_Sleep
    \/ tryStatFile_Check
    \/ tryStatFile_Exit
    \/ env_Signal
    \/ env_Unmount
    \/ env_ServeLoopEnd

Spec == Init /\ [][Next]_vars


\* The Go scheduler runs every goroutine that can take a step, the timer of
\* the select fires, a started umount command ends and the serve loop ends
\* once the mount is gone.  fs.Mount may block for ever, and no signal or
\* outside unmount has to happen.
Fairness ==
    /\ WF_vars(main_Parse) /\ WF_vars(main_Resolve) /\ WF_vars(main_Notify)
    /\ WF_vars(main_GoMount) /\ WF_vars(main_SelectDone)
    /\ WF_vars(main_SelectTimeout) /\ WF_vars(main_MountFail)
    /\ WF_vars(main_Timeout) /\ WF_vars(main_GoSignal) /\ WF_vars(main_GoWait)
    /\ WF_vars(main_GoProbe) /\ WF_vars(main_Ready) /\ WF_vars(main_WgWait)
    /\ WF_vars(main_Return) /\ WF_vars(mountTask_Close)
    /\ WF_vars(sigTask_Recv) /\ WF_vars(sigTask_UmountStart)
    /\ WF_vars(sigTask_UmountFinish) /\ WF_vars(sigTask_FailPrint)
    /\ WF_vars(sigTask_Exit) /\ WF_vars(waitTask_Call)
    /\ WF_vars(waitTask_WaitReturn) /\ WF_vars(waitTask_WgDone)
    /\ WF_vars(tryStatFile_Stat) /\ WF_vars(tryStatFile_Sleep)
    /\ WF_vars(tryStatFile_Check) /\ WF_vars(tryStatFile_Exit)
    /\ WF_vars(env_ServeLoopEnd)

FairSpec == Init /\ [][Next]_vars /\ Fairness

(***************************************************************************)
(* Properties                                                              *)
(***************************************************************************)
PastChecks == "using" \in out

MountSucceeded == done /\ mountErr = "nil" /\ server = "srv"

\* the tasks that have executed a statement ending the process
TerminalTasks ==
    {t \in {"main", "sigTask", "tryStatFile"} :
        \/ t = "main" /\ mainPc \in {"exited", "returned"}
        \/ t = "sigTask" /\ sigPc = "exited"
        \/ t = "tryStatFile" /\ probePc = "exited"}

C1_PathDecided ==
    /\ Running => TerminalTasks = {} /\ exitPath = "none"
    /\ ~Running =>
         /\ Cardinality(TerminalTasks) = 1
         /\ exitStatus \in {0, 1}
         /\ PastChecks =>
              exitPath \in {"timeout", "mountError", "verify", "signal", "serveReturn"}
         /\ exitPath = "timeout" => mainPc = "exited" /\ exitStatus = 1
         /\ exitPath = "mountError" => mainPc = "exited" /\ exitStatus = 1
         /\ exitPath = "verify" => probePc = "exited" /\ exitStatus = 1
         /\ exitPath = "signal" => sigPc = "exited"
         /\ exitPath = "serveReturn" => mainPc = "returned" /\ exitStatus = 0

C2_UmountNeverOnOtherPaths ==
    /\ umountCount <= 1
    /\ umountCount > 0 => "received" \in out /\ sigSent > 0 /\ MountSucceeded
    /\ exitPath \in {"timeout", "mountError", "verify", "serveReturn"} => umountCount = 0

\* C2 amended: umount runs at most once, only after a signal was received and
\* the mount call returned successfully, with the mount path as argument and
\* never on the timeout or mount-error path; a run that ends by verification
\* failure or by the return of main has run umount only if a signal arrived.
C2_UmountAtMostOnceAfterSignal ==
    /\ umountCount <= 1
    /\ umountCount > 0 =>
         /\ "received" \in out /\ sigSent > 0 /\ MountSucceeded
         /\ exitPath \notin {"timeout", "mountError"}
    /\ sigSent = 0 => umountCount = 0

\* C2 witness: several signals were delivered, umount ran once, and the run
\* ended on the verification-failure path.
C2_Witness ==
    /\ sigSent >= 2
    /\ umountCount = 1
    /\ exitPath = "verify"

\* C3: once the select has taken the timer case, main prints the busy-mount
\* hint and exits with status 1; the abandoned mount call's later result is
\* read by nobody, starts no signal, wait or probe task and no umount.
C3_TimeoutDecides ==
    (mainPc = "timeout" \/ "timeoutHint" \in out) =>
        /\ sigPc = "none" /\ waitPc = "none" /\ probePc = "none"
        /\ umountCount = 0
        /\ ~earlyRead
        /\ "ready" \notin out
        /\ "timeoutHint" \in out => exitStatus = 1 /\ exitPath = "timeout"
        /\ ~Running => "timeoutHint" \in out /\ exitStatus = 1

\* C3 witness: the timer case was taken and the process exited with 1 after
\* the abandoned fs.Mount had returned successfully.
C3_Witness ==
    /\ exitPath = "timeout"
    /\ exitStatus = 1
    /\ mountPc = "returned"
    /\ server = "srv"
    /\ mounted

\* C4 as stated: when the mount call succeeded and all 3 stats of file.txt
\* failed, the process never ends with a status other than 1.
C4_FailedVerificationExits1 ==
    (~Running /\ MountSucceeded /\ probeI = ProbeAttempts /\ ~statOk) => exitStatus = 1

\* C5 as stated: "Mount ready" is printed only after a stat of file.txt has
\* succeeded.
C5_ReadyOnlyAfterProbe == "ready" \in out => statOk


\* the signal task holds a signal of a verified mount that is still in place
\* and that nobody outside the process has removed
SignalOnVerifiedMount ==
    /\ statOk /\ probePc = "finished"
    /\ "received" \in out
    /\ ~extUnmounted

C6_ShutdownStatus ==
    /\ umountArg \subseteq {mountpoint}
    /\ (SignalOnVerifiedMount /\ sigPc # "umount") =>
           umountCount = 1 /\ umountArg = {mountpoint}
    /\ (SignalOnVerifiedMount /\ ~Running) =>
           /\ umountCount = 1
           /\ sigPc \in {"exit0", "exited"}
           /\ exitStatus = IF umountErr = "nil" THEN 0 ELSE 1
           /\ umountErr = "nil" <=> ~mounted

C7_SpontaneousUnmountExits0 ==
    (~Running /\ MountSucceeded /\ "ready" \in out /\ ~serving /\ sigSent = 0) =>
        exitStatus = 0 /\ umountCount = 0

\* C8: when the mount call has returned an error, main reports it and exits
\* with status 1 at once: no signal, wait or probe task is started, umount
\* does not run and fs.Mount is not called again.
C8_MountErrorIsTerminal ==
    /\ mountCalls <= 1
    /\ mountErr # "nil" =>
         /\ sigPc = "none" /\ waitPc = "none" /\ probePc = "none"
         /\ umountCount = 0
         /\ "ready" \notin out
         /\ mainPc \in {"select", "mountFail", "timeout", "exited"}
         /\ ~Running => exitStatus = 1
    /\ (mainPc = "mountFail" \/ "mountFail" \in out) => mountErr # "nil"
    /\ "mountFail" \in out => exitStatus = 1 /\ exitPath = "mountError"

\* C8 witness: the process ended on the mount-error path.
C8_Witness ==
    /\ exitPath = "mountError"
    /\ "mountFail" \in out
    /\ mountErr = "err"
    /\ mountCalls = 1

\* C9: server and mountErr are written by the mount goroutine alone, and
\* main and the serve-loop-wait task read them only once done is closed;
\* on the timeout path they are not read at all.
C9_ReadsAfterDone ==
    /\ writers \subseteq {"mountTask"}
    /\ ~earlyRead
    /\ mainPc \in {"mountFail", "wgAdd", "goWait", "goProbe", "ready", "wgWait", "return"}
           => done /\ writers = {"mountTask"}
    /\ waitPc # "none" => done /\ server = "srv"

\* C9 witness: the serve-loop-wait task has read server.
C9_Witness ==
    /\ waitPc = "wait"
    /\ writers = {"mountTask"}
    /\ done

\* C10: main does not stay in the select for ever: when fs.Mount never
\* returns the timer case is taken and the process ends on the timeout path
\* with status 1.
C10_MountWaitBounded ==
    /\ (mainPc = "select") ~> (mainPc # "select")
    /\ (mainPc = "select") ~>
           (mountPc # "calling" \/ (exitPath = "timeout" /\ exitStatus = 1))

\* C10 witness: the process ended on the timeout path while fs.Mount was
\* still blocked.
C10_Witness ==
    /\ exitPath = "timeout"
    /\ exitStatus = 1
    /\ mountPc = "calling"


\* main has executed line 121: ruid, rgid, err := resolveUIDGID(*uid, *gid)
Resolved == argc >= 1 /\ mainPc \notin {"parse", "resolve"}

\* user.Current() succeeded and both of its strings are numbers
LookupOk ==
    /\ currentUser.ok
    /\ ~Atoi(currentUser.Uid).err
    /\ ~Atoi(currentUser.Gid).err

\* the uint32 value v is the number x
Is32(v, x) == x >= 0 /\ v.hi = x \div Half /\ v.lo = x % Half

\* C11 as stated: when the lookup succeeds, a requested -1 is replaced by
\* the current uid (gid), each field on its own, and every other requested
\* value is returned unchanged.
C11_ExplicitIdsUnchanged ==
    (Resolved /\ LookupOk) =>
        /\ uidFlag = Sentinel => Is32(ruid, Atoi(currentUser.Uid).val)
        /\ gidFlag = Sentinel => Is32(rgid, Atoi(currentUser.Gid).val)
        /\ uidFlag # Sentinel => Is32(ruid, uidFlag)
        /\ gidFlag # Sentinel => Is32(rgid, gidFlag)

\* C12: when the identity lookup fails (no current user, or a uid / gid
\* string that is no number), the process exits with status 1 after one
\* lookup, before fs.Mount is called, signals are registered or any task
\* is started.
C12_IdentityFailureIsFatal ==
    /\ lookups <= 1
    /\ (Resolved /\ ~LookupOk) =>
         /\ exitStatus = 1 /\ exitPath = "identity"
         /\ "resolveError" \in out /\ "using" \notin out
         /\ lookups = 1
         /\ mountCalls = 0 /\ mountPc = "none"
         /\ ~notified /\ sigSent = 0
         /\ sigPc = "none" /\ waitPc = "none" /\ probePc = "none"
    /\ exitPath = "identity" => ~LookupOk

\* C12 witness: the process ended on a uid string that is no number.
C12_Witness ==
    /\ exitPath = "identity"
    /\ exitStatus = 1
    /\ currentUser.ok
    /\ currentUser.Uid = <<"x">>

\* C13: without a positional argument main prints the usage and the process
\* ends with status 0; no identity is looked up, fs.Mount is not called and
\* no signal is registered.
C13_NoArgumentUsage ==
    /\ (argc = 0 /\ mainPc # "parse") =>
         /\ exitStatus = 0 /\ exitPath = "usage"
         /\ out = {"usage"}
         /\ lookups = 0 /\ ruid = NotResolved /\ rgid = NotResolved
         /\ mountCalls = 0 /\ mountPc = "none"
         /\ ~notified
         /\ sigPc = "none" /\ waitPc = "none" /\ probePc = "none"
    /\ ("usage" \in out \/ exitPath = "usage") => argc = 0

\* C13 witness: the process ended after printing the usage.
C13_Witness ==
    /\ argc = 0
    /\ exitPath = "usage"
    /\ exitStatus = 0
    /\ "usage" \in out


C14_ProbeState ==
    /\ probeI <= ProbeAttempts
    /\ probePc = "stat" => probeI < ProbeAttempts
    /\ statOk => /\ probePc \in {"check", "finished"}
                 /\ ~probeErr
                 /\ "statFail" \notin out
    /\ ("statFail" \in out \/ probePc \in {"exit", "exited"}) =>
           probeI = ProbeAttempts /\ probeErr /\ ~statOk
    /\ exitPath = "verify" => exitStatus = 1 /\ "statFail" \in out

\* C14: tryStatFile makes at most 3 stat attempts and then ends (or the
\* process has ended before); after a successful attempt it makes no other
\* one and never reports a failure; it reports a failure and exits with 1
\* only when all 3 attempts were made and the last one failed.
C14_ProbeTerminates ==
    /\ [](C14_ProbeState)
    /\ [][statOk => probeI' = probeI /\ statOk']_vars
    /\ (probePc = "stat") ~> (probePc \in {"finished", "exited"} \/ ~Running)

\* C14 witness: the second attempt succeeded and tryStatFile returned
\* without a third one.
C14_Witness ==
    /\ probePc = "finished"
    /\ probeI = 2
    /\ statOk


C15_EarlySignalState ==
    /\ sigEarly => sigCh = SigChCap \/ "received" \in out
    /\ (sigEarly /\ sigPc = "none") =>
         /\ sigCh = SigChCap
         /\ "received" \notin out /\ umountCount = 0
         /\ Running \/ exitPath \in {"timeout", "mountError"}
    /\ exitPath \in {"timeout", "mountError"} =>
         exitStatus = 1 /\ umountCount = 0 /\ sigPc = "none"
    /\ (~Running /\ sigEarly /\ sigPc # "none" /\ umountCount = 0) =>
         /\ exitPath \in {"verify", "serveReturn"}
         /\ exitPath = "serveReturn" => extUnmounted

UmountSucceeded == umountCount = 1 /\ umountErr = "nil" /\ sigPc \in {"exit0", "exited"}

\* the umount command run by the signal goroutine has returned an error
UmountFailed == umountCount = 1 /\ umountErr # "nil"

\* C16: after a successful mount and a tryStatFile that has returned on a
\* successful stat, the process ends with status 1 only by the signal
\* goroutine's exit after a failed umount; the return of main and the exit
\* after a successful umount give status 0.
C16_VerifiedExitStatus ==
    (~Running /\ MountSucceeded /\ statOk /\ probePc = "finished") =>
        /\ exitPath \in {"signal", "serveReturn"}
        /\ exitStatus = 1 <=> (exitPath = "signal" /\ UmountFailed)
        /\ exitStatus = 0 <=> (exitPath = "serveReturn" \/ UmountSucceeded)

\* C16 witness: on a verified mount umount failed and the signal goroutine
\* ended the process with status 1.
C16_Witness ==
    /\ MountSucceeded /\ statOk /\ probePc = "finished"
    /\ exitPath = "signal"
    /\ exitStatus = 1
    /\ UmountFailed

\* C17: once the umount run on a signal has succeeded, the process is ended
\* by the signal goroutine, by main returning after wg.Wait or by
\* tryStatFile; the status is 0 unless tryStatFile, still running on a mount
\* no stat has verified, ends the process with 1.
C17_ShutdownAfterUmount ==
    (~Running /\ UmountSucceeded) =>
        /\ exitPath \in {"signal", "serveReturn", "verify"}
        /\ exitStatus = 1 <=> exitPath = "verify"
        /\ exitStatus = 0 <=> exitPath \in {"signal", "serveReturn"}
        /\ exitPath = "verify" => ~statOk /\ probeI = ProbeAttempts
        /\ exitPath = "serveReturn" => ~serving /\ wg = 0

\* C17 witness: umount succeeded on a mount that no stat had verified and
\* that nobody else removed, and main returned before the signal goroutine
\* called os.Exit(0).
C17_Witness ==
    /\ UmountSucceeded
    /\ sigPc = "exit0"
    /\ exitPath = "serveReturn"
    /\ ~extUnmounted
    /\ ~statOk


\* C18: resolveUIDGID looks the current identity up whatever uid and gid
\* were requested; when the lookup fails it returns the error with uid and
\* gid 0, also when both requested values are explicit.
C18_LookupUnconditional ==
    /\ Resolved => lookups = 1
    /\ (Resolved /\ ~LookupOk) =>
         /\ "resolveError" \in out
         /\ ruid = Zero32 /\ rgid = Zero32
         /\ exitStatus = 1
    /\ (Resolved /\ LookupOk) => "using" \in out /\ "resolveError" \notin out

\* C18 witness: uid and gid were both given explicitly, the lookup failed
\* and resolveUIDGID returned the error with uid and gid 0.
C18_Witness ==
    /\ Resolved
    /\ uidFlag # Sentinel /\ gidFlag # Sentinel
    /\ ~currentUser.ok
    /\ "resolveError" \in out
    /\ ruid = Zero32 /\ rgid = Zero32

====
